---- MODULE Spec2Model ----
(***************************************************************************)
(* The VAD frame classifier of examples/ten_vad_state_machine.h: one       *)
(* struct vad_state_machine, driven one frame at a time by                 *)
(* vad_state_machine_process, with reset, accessors and destroy.           *)
(***************************************************************************)
EXTENDS Integers, Sequences, FiniteSets, TLC

VARIABLES
    handle,   \* the pointer the caller holds: "SM", "NULL" (create failed) or "FREED"
    sm,       \* struct vad_state_machine behind the handle
    op,       \* the operation that ran last
    was,      \* current_state when that operation was called
    ret,      \* what that operation returned: <<v>>, or << >> for void
    notes,    \* callback invocations made by that operation, in order
    seen,     \* observer: what has been fed since construction or the last reset
    tw        \* a twin constructed afresh at the last reset and fed the same flags
              \* since, each with the other probability

vars == <<handle, sm, op, was, ret, notes, seen, tw>>

(* ---------------------------- bounds ----------------------------------- *)

\* process is not called once total_frame_count has reached this
MaxFrames == 12

\* frames fed to a machine built with one of the long-pause configurations
MaxPauseFrames == 14

(* --------------------------- vad_state_t ------------------------------- *)

VAD_STATE_SILENCE == 0
VAD_STATE_SPEECH_START == 1
VAD_STATE_SPEECH_CONTINUE == 2
VAD_STATE_SPEECH_PAUSE == 3
VAD_STATE_SPEECH_END == 4

(* ----------------------------- inputs ---------------------------------- *)

\* configurations handed to create; thresholds are in frames, durations in ms
ConfigInputs ==
    [speech_start_frames : {1, 3},
     speech_end_frames : {2, 5},
     pause_frames : {1, 2},
     pause_resume_frames : {1, 2},
     min_speech_duration_ms : {64, 200},
     max_pause_duration_ms : {48, 160}]

\* configurations on the edge of their ranges: durations of 0 ms and of one
\* frame, and
\* speech_start_frames no larger than pause_resume_frames
BoundaryConfigInputs ==
    [speech_start_frames : {1, 2, 3},
     speech_end_frames : {2},
     pause_frames : {1},
     pause_resume_frames : {1, 2},
     min_speech_duration_ms : {0, 64},
     max_pause_duration_ms : {0, 16, 48}]

\* configurations of the max-pause example, 160 ms of tolerance, with
\* pause_frames below and at the ten frames that 160 ms makes
PauseConfigInputs ==
    [speech_start_frames : {1},
     speech_end_frames : {3},
     pause_frames : {1, 2, 10},
     pause_resume_frames : {1, 2},
     min_speech_duration_ms : {64},
     max_pause_duration_ms : {160}]

\* the number of frames fed to a machine with configuration c
FrameBudget(c) ==
    IF c \in PauseConfigInputs THEN MaxPauseFrames ELSE MaxFrames

\* <<hop_size, sample_rate>>: 256 samples at 16 kHz is 16 ms per frame.
\* frame_duration_ms and the two durations of the configuration are floats in
\* the code; with these inputs every product and comparison made on them is on
\* whole numbers far below 2^24, where float arithmetic is exact.
FrameInputs == {<<256, 16000>>}

\* <<callback registered, user_data>>
CallbackInputs == {<<FALSE, "NULL">>, <<TRUE, "ctx">>}

\* vad_flag is an int tested for non-zero
VadFlags == {0, 1}

\* probability 0.0 and 1.0
Probabilities == {0, 1}

(* --------------------------- the struct -------------------------------- *)

default_config ==
    [speech_start_frames |-> 3,
     speech_end_frames |-> 10,
     pause_frames |-> 5,
     pause_resume_frames |-> 2,
     min_speech_duration_ms |-> 200,
     max_pause_duration_ms |-> 1000]

\* config is a pointer: << >> is NULL and selects default_config, <<c>> points to c
vad_state_machine_create(config, hop_size, sample_rate, callback, user_data) ==
    [config |-> IF config = << >> THEN default_config ELSE config[1],
     hop_size |-> hop_size,
     sample_rate |-> sample_rate,
     frame_duration_ms |-> (hop_size * 1000) \div sample_rate,
     callback |-> callback,
     user_data |-> user_data,
     current_state |-> VAD_STATE_SILENCE,
     previous_state |-> VAD_STATE_SILENCE,
     speech_frame_count |-> 0,
     silence_frame_count |-> 0,
     total_frame_count |-> 0,
     current_state_frames |-> 0,
     speech_start_frame |-> -1,
     last_speech_frame |-> -1]

\* result of a step on the struct: the struct after it and the callbacks it made
Step(m, cb) == [sm |-> m, cb |-> cb]

\* change_state forgetting previous_state
change_state_no_previous(m, new_state) ==
    IF m.current_state # new_state
    THEN Step([m EXCEPT !.current_state = new_state,
                        !.current_state_frames = 0],
              IF m.callback
              THEN << <<m.current_state, new_state, m.user_data>> >>
              ELSE << >>)
    ELSE Step(m, << >>)

\* change_state leaving current_state_frames running
change_state_keeps_frames(m, new_state) ==
    IF m.current_state # new_state
    THEN Step([m EXCEPT !.previous_state = m.current_state,
                        !.current_state = new_state],
              IF m.callback
              THEN << <<m.current_state, new_state, m.user_data>> >>
              ELSE << >>)
    ELSE Step(m, << >>)

change_state(m, new_state) ==
    IF m.current_state # new_state
    THEN Step([m EXCEPT !.previous_state = m.current_state,
                        !.current_state = new_state,
                        !.current_state_frames = 0],
              IF m.callback
              THEN << <<m.current_state, new_state, m.user_data>> >>
              ELSE << >>)
    ELSE Step(m, << >>)

\* update_counters leaving silence_frame_count alone on a voiced frame
update_counters_keeps_silence(m, vad_flag) ==
    LET c == [m EXCEPT !.total_frame_count = @ + 1,
                       !.current_state_frames = @ + 1]
    IN IF vad_flag # 0
       THEN [c EXCEPT !.speech_frame_count = @ + 1,
                      !.last_speech_frame = c.total_frame_count]
       ELSE [c EXCEPT !.silence_frame_count = @ + 1,
                      !.speech_frame_count = 0]

\* the frame counters and the run counters
update_counters(m, vad_flag) ==
    LET c == [m EXCEPT !.total_frame_count = @ + 1,
                       !.current_state_frames = @ + 1]
    IN IF vad_flag # 0
       THEN [c EXCEPT !.speech_frame_count = @ + 1,
                      !.silence_frame_count = 0,
                      !.last_speech_frame = c.total_frame_count]
       ELSE [c EXCEPT !.silence_frame_count = @ + 1,
                      !.speech_frame_count = 0]

\* the onset test with > for >=
speech_started_strict(m) ==
    m.speech_frame_count > m.config.speech_start_frames

\* the onset test of the SILENCE and SPEECH_END cases
speech_started(m) ==
    m.speech_frame_count >= m.config.speech_start_frames

\* the duration test turned round
speech_too_short_inverted(m) ==
    LET speech_duration == m.current_state_frames * m.frame_duration_ms
    IN speech_duration >= m.config.min_speech_duration_ms

\* the duration test of the SPEECH_START case
speech_too_short(m) ==
    LET speech_duration == m.current_state_frames * m.frame_duration_ms
    IN speech_duration < m.config.min_speech_duration_ms

\* the pause test with > for >=
pause_detected_strict(m) ==
    m.silence_frame_count > m.config.pause_frames

\* the pause test of the SPEECH_CONTINUE case
pause_detected(m) ==
    m.silence_frame_count >= m.config.pause_frames

\* the resume test with > for >=
pause_resumed_strict(m) ==
    m.speech_frame_count > m.config.pause_resume_frames

\* the resume test of the SPEECH_PAUSE case
pause_resumed(m) ==
    m.speech_frame_count >= m.config.pause_resume_frames

\* the timeout test measuring the time spent in SPEECH_PAUSE
pause_timed_out_in_state(m) ==
    m.current_state_frames * m.frame_duration_ms >= m.config.max_pause_duration_ms

\* the timeout test reading the voiced run, which is 0 on every silent frame
pause_timed_out_on_speech(m) ==
    m.speech_frame_count * m.frame_duration_ms >= m.config.max_pause_duration_ms

\* the timeout test of the SPEECH_PAUSE case
pause_timed_out(m) ==
    m.silence_frame_count * m.frame_duration_ms >= m.config.max_pause_duration_ms

\* the switch on current_state, m already counted
transition(m, vad_flag) ==
    CASE m.current_state = VAD_STATE_SILENCE ->
           IF speech_started(m)
           THEN change_state(
                  [m EXCEPT !.speech_start_frame =
                                m.total_frame_count - m.speech_frame_count + 1],
                  VAD_STATE_SPEECH_START)
           ELSE Step(m, << >>)
      [] m.current_state = VAD_STATE_SPEECH_START ->
           IF vad_flag # 0
           THEN change_state(m, VAD_STATE_SPEECH_CONTINUE)
           ELSE IF m.silence_frame_count >= m.config.speech_end_frames
           THEN IF speech_too_short(m)
                THEN change_state(m, VAD_STATE_SILENCE)
                ELSE change_state(m, VAD_STATE_SPEECH_END)
           ELSE Step(m, << >>)
      [] m.current_state = VAD_STATE_SPEECH_CONTINUE ->
           IF pause_detected(m)
           THEN change_state(m, VAD_STATE_SPEECH_PAUSE)
           ELSE Step(m, << >>)
      [] m.current_state = VAD_STATE_SPEECH_PAUSE ->
           IF pause_resumed(m)
           THEN change_state(m, VAD_STATE_SPEECH_CONTINUE)
           ELSE IF pause_timed_out(m)
           THEN change_state(m, VAD_STATE_SPEECH_END)
           ELSE Step(m, << >>)
      [] m.current_state = VAD_STATE_SPEECH_END ->
           IF speech_started(m)
           THEN change_state(
                  [m EXCEPT !.speech_start_frame =
                                m.total_frame_count - m.speech_frame_count + 1],
                  VAD_STATE_SPEECH_START)
           ELSE change_state(m, VAD_STATE_SILENCE)

\* process counting a frame as voiced only when the probability agrees
process_trusting_probability(m, vad_flag, probability) ==
    LET f == IF vad_flag # 0 /\ probability > 0 THEN 1 ELSE 0
        r == transition(update_counters(m, f), f)
    IN [sm |-> r.sm, cb |-> r.cb, ret |-> <<r.sm.current_state>>]

\* the non-null path of process; returns sm->current_state
vad_state_machine_process(m, vad_flag, probability) ==
    LET r == transition(update_counters(m, vad_flag), vad_flag)
    IN [sm |-> r.sm, cb |-> r.cb, ret |-> <<r.sm.current_state>>]

\* reset leaving total_frame_count alone
reset_keeps_total(m) ==
    Step([m EXCEPT !.current_state = VAD_STATE_SILENCE,
                   !.previous_state = VAD_STATE_SILENCE,
                   !.speech_frame_count = 0,
                   !.silence_frame_count = 0,
                   !.current_state_frames = 0,
                   !.speech_start_frame = -1,
                   !.last_speech_frame = -1],
         << >>)

\* reset leaving last_speech_frame alone
reset_keeps_last_speech(m) ==
    Step([m EXCEPT !.current_state = VAD_STATE_SILENCE,
                   !.previous_state = VAD_STATE_SILENCE,
                   !.speech_frame_count = 0,
                   !.silence_frame_count = 0,
                   !.total_frame_count = 0,
                   !.current_state_frames = 0,
                   !.speech_start_frame = -1],
         << >>)

\* reset going back to SILENCE through change_state
reset_through_change_state(m) ==
    LET r == change_state(m, VAD_STATE_SILENCE)
    IN Step([r.sm EXCEPT !.previous_state = VAD_STATE_SILENCE,
                         !.speech_frame_count = 0,
                         !.silence_frame_count = 0,
                         !.total_frame_count = 0,
                         !.current_state_frames = 0,
                         !.speech_start_frame = -1,
                         !.last_speech_frame = -1],
            r.cb)

\* the non-null path of reset: assigns the fields, calls nothing
vad_state_machine_reset(m) ==
    Step([m EXCEPT !.current_state = VAD_STATE_SILENCE,
                   !.previous_state = VAD_STATE_SILENCE,
                   !.speech_frame_count = 0,
                   !.silence_frame_count = 0,
                   !.total_frame_count = 0,
                   !.current_state_frames = 0,
                   !.speech_start_frame = -1,
                   !.last_speech_frame = -1],
         << >>)

vad_state_machine_get_current_state_duration(m) ==
    m.current_state_frames * m.frame_duration_ms

(* ---------------------------- observer --------------------------------- *)

\* nothing fed yet
SeenNothing ==
    [calls |-> 0,          \* process calls
     in_state |-> 0,       \* process calls since the call that last changed the state
     with_entry |-> 0,     \* the same, that call counted too
     run_kind |-> "none",  \* "voiced" or "silent": kind of the current run
     run_len |-> 0,        \* length of the current run
     burst |-> TRUE,       \* the input so far is voiced frames followed by silent ones
     lead_voiced |-> 0,    \* while burst: the voiced frames before the first silent one
     then_silent |-> 0,    \* while burst: the silent frames after them
     pause_silent |-> 0,   \* silent frames in a row fed to a machine in SPEECH_PAUSE
     onset |-> "before"]   \* the first run of speech_start_frames voiced frames was
                           \* completed by this call ("at"), the one before ("next"),
                           \* an earlier one ("later"), or not yet ("before")

\* the observer after one more frame; from: current_state when the call was
\* made; changed: the call changed it
SeenAfter(s, voiced, from, changed, start_frames) ==
    LET kind == IF voiced THEN "voiced" ELSE "silent"
        len == IF s.run_kind = kind THEN s.run_len + 1 ELSE 1
        still == s.burst /\ ~(voiced /\ s.then_silent > 0)
    IN [calls |-> s.calls + 1,
        in_state |-> IF changed THEN 0 ELSE s.in_state + 1,
        with_entry |-> IF changed THEN 1 ELSE s.with_entry + 1,
        run_kind |-> kind,
        run_len |-> len,
        burst |-> still,
        lead_voiced |-> IF ~still THEN 0
                        ELSE IF voiced THEN s.lead_voiced + 1 ELSE s.lead_voiced,
        then_silent |-> IF ~still THEN 0
                        ELSE IF voiced THEN s.then_silent ELSE s.then_silent + 1,
        pause_silent |-> IF from = VAD_STATE_SPEECH_PAUSE /\ ~voiced
                         THEN s.pause_silent + 1 ELSE 0,
        onset |-> CASE s.onset = "at" -> "next"
                    [] s.onset \in {"next", "later"} -> "later"
                    [] OTHER -> IF voiced /\ len >= start_frames THEN "at" ELSE "before"]

(* ------------------------- initial state ------------------------------- *)

Fresh(m) ==
    [sm |-> vad_state_machine_create(<<m.config>>, m.hop_size, m.sample_rate,
                                     m.callback, m.user_data),
     cb |-> << >>, ret |-> << >>]

\* what sm holds when there is no struct behind the handle
NoMachine == vad_state_machine_create(<< >>, 1, 1, FALSE, "NULL")

\* the state after vad_state_machine_create called with one of configs: a
\* machine, or NULL when malloc fails
Created(configs) ==
    \E c \in configs, f \in FrameInputs, k \in CallbackInputs, h \in {"SM", "NULL"} :
        /\ handle = h
        /\ sm = IF h = "SM" THEN vad_state_machine_create(c, f[1], f[2], k[1], k[2])
                ELSE NoMachine
        /\ op = "create"
        /\ was = VAD_STATE_SILENCE
        /\ ret = << >>
        /\ notes = << >>
        /\ seen = SeenNothing
        /\ tw = Fresh(sm)

Init == Created({<<i>> : i \in ConfigInputs} \cup {<< >>})

InitBoundary == Created({<<i>> : i \in BoundaryConfigInputs})

InitPause == Created({<<i>> : i \in PauseConfigInputs})

(* ------------------------------ actions -------------------------------- *)

\* the probability the twin is given when the machine is given p
OtherProbability(p) == IF p = 0 THEN 1 ELSE 0

Process(vad_flag, probability) ==
    /\ handle = "SM"
    /\ sm.total_frame_count < FrameBudget(sm.config)
    /\ was' = sm.current_state
    /\ LET r == vad_state_machine_process(sm, vad_flag, probability)
       IN /\ sm' = r.sm
          /\ ret' = r.ret
          /\ notes' = r.cb
          /\ seen' = SeenAfter(seen, vad_flag # 0, sm.current_state,
                               r.sm.current_state # sm.current_state,
                               sm.config.speech_start_frames)
    /\ tw' = vad_state_machine_process(tw.sm, vad_flag, OtherProbability(probability))
    /\ op' = "process"
    /\ UNCHANGED handle

\* process answering a null handle with an error code
ProcessNull_error_code(vad_flag, probability) ==
    /\ handle = "NULL"
    /\ op' = "process"
    /\ ret' = <<-1>>
    /\ notes' = << >>
    /\ UNCHANGED <<handle, sm, was, seen, tw>>

ProcessNull(vad_flag, probability) ==
    /\ handle = "NULL"
    /\ op' = "process"
    /\ ret' = <<VAD_STATE_SILENCE>>
    /\ notes' = << >>
    /\ UNCHANGED <<handle, sm, was, seen, tw>>

Reset ==
    /\ handle = "SM"
    /\ LET r == vad_state_machine_reset(sm)
       IN /\ sm' = r.sm
          /\ notes' = r.cb
    /\ op' = "reset"
    /\ was' = sm.current_state
    /\ ret' = << >>
    /\ seen' = SeenNothing
    /\ tw' = Fresh(sm)
    /\ UNCHANGED handle

ResetNull ==
    /\ handle = "NULL"
    /\ op' = "reset"
    /\ ret' = << >>
    /\ notes' = << >>
    /\ UNCHANGED <<handle, sm, was, seen, tw>>

GetCurrentState ==
    /\ handle \in {"SM", "NULL"}
    /\ op' = "get_current_state"
    /\ ret' = IF handle = "SM" THEN <<sm.current_state>> ELSE <<VAD_STATE_SILENCE>>
    /\ notes' = << >>
    /\ was' = sm.current_state
    /\ UNCHANGED <<handle, sm, seen, tw>>

GetCurrentStateDuration ==
    /\ handle \in {"SM", "NULL"}
    /\ op' = "get_current_state_duration"
    /\ ret' = IF handle = "SM"
              THEN <<vad_state_machine_get_current_state_duration(sm)>>
              ELSE <<0>>
    /\ notes' = << >>
    /\ was' = sm.current_state
    /\ UNCHANGED <<handle, sm, seen, tw>>

\* free(sm): the struct is gone, which the model shows as NoMachine
Destroy ==
    /\ handle = "SM"
    /\ handle' = "FREED"
    /\ sm' = NoMachine
    /\ op' = "destroy"
    /\ was' = sm.current_state
    /\ ret' = << >>
    /\ notes' = << >>
    /\ seen' = SeenNothing
    /\ tw' = Fresh(NoMachine)

DestroyNull ==
    /\ handle = "NULL"
    /\ op' = "destroy"
    /\ ret' = << >>
    /\ notes' = << >>
    /\ UNCHANGED <<handle, sm, was, seen, tw>>

Next ==
    \/ \E f \in VadFlags, p \in Probabilities : Process(f, p)
    \/ \E f \in VadFlags, p \in Probabilities : ProcessNull(f, p)
    \/ Reset
    \/ ResetNull
    \/ GetCurrentState
    \/ GetCurrentStateDuration
    \/ Destroy
    \/ DestroyNull

Spec == Init /\ [][Next]_vars

\* the same program constructed with the boundary configurations
SpecBoundary == InitBoundary /\ [][Next]_vars

\* the same program constructed with the max-pause configurations
SpecPause == InitPause /\ [][Next]_vars

TypeOK ==
    /\ handle \in {"SM", "NULL", "FREED"}
    /\ sm.current_state \in 0..4
    /\ sm.total_frame_count \in 0..FrameBudget(sm.config)

(* ------------------------------ claims --------------------------------- *)

\* a step in which process ran on a machine
ProcessStep == op' = "process" /\ handle = "SM"

\* a step in which reset ran on a machine
ResetStep == op' = "reset" /\ handle = "SM"

\* a state right after process ran on a machine
AfterProcess == op = "process" /\ handle = "SM"

\* C1: a process call changes current_state only along one of the nine edges of
\* the transition table, and only when that edge's condition holds on the run
\* counters as updated by this frame; otherwise current_state is unchanged and
\* current_state_frames is one larger than before.
C1_TableConformance ==
    [][ProcessStep =>
        LET from == sm.current_state
            to == sm'.current_state
            c == sm.config
            speech == sm'.speech_frame_count
            silence == sm'.silence_frame_count
            voiced == seen'.run_kind = "voiced"
            elapsed == (sm.current_state_frames + 1) * sm.frame_duration_ms
            Edge(a, b) == from = a /\ to = b
        IN IF to # from
           THEN \/ /\ Edge(VAD_STATE_SILENCE, VAD_STATE_SPEECH_START)
                   /\ speech >= c.speech_start_frames
                \/ /\ Edge(VAD_STATE_SPEECH_START, VAD_STATE_SPEECH_CONTINUE)
                   /\ voiced
                \/ /\ Edge(VAD_STATE_SPEECH_START, VAD_STATE_SILENCE)
                   /\ silence >= c.speech_end_frames
                   /\ elapsed < c.min_speech_duration_ms
                \/ /\ Edge(VAD_STATE_SPEECH_START, VAD_STATE_SPEECH_END)
                   /\ silence >= c.speech_end_frames
                   /\ elapsed >= c.min_speech_duration_ms
                \/ /\ Edge(VAD_STATE_SPEECH_CONTINUE, VAD_STATE_SPEECH_PAUSE)
                   /\ silence >= c.pause_frames
                \/ /\ Edge(VAD_STATE_SPEECH_PAUSE, VAD_STATE_SPEECH_CONTINUE)
                   /\ speech >= c.pause_resume_frames
                \/ /\ Edge(VAD_STATE_SPEECH_PAUSE, VAD_STATE_SPEECH_END)
                   /\ silence * sm.frame_duration_ms >= c.max_pause_duration_ms
                \/ /\ Edge(VAD_STATE_SPEECH_END, VAD_STATE_SPEECH_START)
                   /\ speech >= c.speech_start_frames
                \/ /\ Edge(VAD_STATE_SPEECH_END, VAD_STATE_SILENCE)
                   /\ speech < c.speech_start_frames
           ELSE sm'.current_state_frames = sm.current_state_frames + 1]_vars

\* a process call has just taken the timeout edge SPEECH_PAUSE -> SPEECH_END
C1_Witness ==
    /\ AfterProcess
    /\ was = VAD_STATE_SPEECH_PAUSE
    /\ sm.current_state = VAD_STATE_SPEECH_END

\* C2: with a callback registered, a process call invokes it exactly once when
\* the returned state differs from the state before the call, with that old
\* state and the returned state, and then previous_state is the old state and
\* current_state_frames is 0; it does not invoke it when the state is the same.
C2_CallbackOncePerChange ==
    [][(ProcessStep /\ sm.callback) =>
        IF ret'[1] # sm.current_state
        THEN /\ notes' = << <<sm.current_state, ret'[1], sm.user_data>> >>
             /\ sm'.previous_state = sm.current_state
             /\ sm'.current_state_frames = 0
        ELSE notes' = << >>]_vars

\* a process call on a machine with a callback has just notified SPEECH_START
C2_Witness ==
    /\ AfterProcess
    /\ sm.callback
    /\ notes = << <<VAD_STATE_SILENCE, VAD_STATE_SPEECH_START, sm.user_data>> >>

\* C3 as claimed: after every process call current_state_frames is the number
\* of process calls since the last transition, the call that made the
\* transition counted.
C3_FramesCountEntryCall ==
    AfterProcess => sm.current_state_frames = seen.with_entry

\* C3 as amended: after every process call current_state_frames is the number
\* of process calls made after the call that last changed the state (0 right
\* after a transition), or since construction or reset if none has changed it.
C3_FramesSinceTransition ==
    AfterProcess => sm.current_state_frames = seen.in_state

\* two calls after the one that entered SPEECH_CONTINUE
C3_Witness ==
    /\ AfterProcess
    /\ sm.current_state = VAD_STATE_SPEECH_CONTINUE
    /\ seen.in_state = 2
    /\ seen.with_entry = 3

\* C4: a voiced frame adds 1 to speech_frame_count and zeroes
\* silence_frame_count, a silent frame does the reverse, so after every process
\* call exactly one of the two is non-zero and it is the length of the current
\* run of equal flags; both are 0 only when nothing has been processed since
\* construction or reset.
C4_RunCounters ==
    /\ [](handle = "SM" =>
            ((sm.speech_frame_count = 0 /\ sm.silence_frame_count = 0)
                <=> seen.calls = 0))
    /\ [][ProcessStep =>
            LET voiced == seen'.run_kind = "voiced"
                speech == sm'.speech_frame_count
                silence == sm'.silence_frame_count
            IN /\ voiced => /\ speech = sm.speech_frame_count + 1
                            /\ silence = 0
                            /\ speech = seen'.run_len
               /\ ~voiced => /\ silence = sm.silence_frame_count + 1
                             /\ speech = 0
                             /\ silence = seen'.run_len
               /\ (speech = 0) # (silence = 0)]_vars

\* a voiced run of three after some silence
C4_Witness ==
    /\ AfterProcess
    /\ seen.calls > 3
    /\ seen.run_kind = "voiced"
    /\ sm.speech_frame_count = 3

\* C5: total_frame_count is the number of process calls made since
\* construction or since the last reset.
C5_TotalIsCallCount ==
    handle = "SM" => sm.total_frame_count = seen.calls

\* five calls in, with transitions behind
C5_Witness ==
    /\ AfterProcess
    /\ seen.calls = 5
    /\ sm.current_state = VAD_STATE_SPEECH_PAUSE

\* the run-time fields of the struct
RuntimeFields(m) ==
    <<m.current_state, m.previous_state, m.speech_frame_count,
      m.silence_frame_count, m.total_frame_count, m.current_state_frames,
      m.speech_start_frame, m.last_speech_frame>>

\* C6: reset leaves every run-time field as create sets it for the same
\* configuration, so the machine then goes through the same states as a freshly
\* constructed one on any frames; reset right after create or after another
\* reset changes nothing.
C6_ResetIsFresh ==
    /\ [][ResetStep =>
            /\ RuntimeFields(sm') =
                 RuntimeFields(vad_state_machine_create(<<sm.config>>, sm.hop_size,
                                   sm.sample_rate, sm.callback, sm.user_data))
            /\ (seen.calls = 0 => sm' = sm)]_vars
    /\ [](handle = "SM" => RuntimeFields(sm) = RuntimeFields(tw.sm))

\* reset has just run on a machine that was in SPEECH_CONTINUE
C6_Witness ==
    /\ op = "reset"
    /\ handle = "SM"
    /\ was = VAD_STATE_SPEECH_CONTINUE
    /\ sm.current_state = VAD_STATE_SILENCE

\* C7: reset invokes no callback, also when it takes current_state from another
\* state to SILENCE, and leaves the configuration, frame_duration_ms, the
\* callback and user_data as they were.
C7_ResetIsSilent ==
    [][ResetStep =>
        /\ notes' = << >>
        /\ sm'.config = sm.config
        /\ sm'.hop_size = sm.hop_size
        /\ sm'.sample_rate = sm.sample_rate
        /\ sm'.frame_duration_ms = sm.frame_duration_ms
        /\ sm'.callback = sm.callback
        /\ sm'.user_data = sm.user_data]_vars

\* reset has just taken a machine with a callback from SPEECH_PAUSE to SILENCE
C7_Witness ==
    /\ op = "reset"
    /\ handle = "SM"
    /\ sm.callback
    /\ was = VAD_STATE_SPEECH_PAUSE
    /\ sm.current_state = VAD_STATE_SILENCE
    /\ notes = << >>

\* C8: the machine and its twin, started alike and fed the same flags but
\* different probabilities, return the same state and make the same
\* notifications at every call.
C8_ProbabilityIgnored ==
    AfterProcess =>
        /\ ret = tw.ret
        /\ notes = tw.cb
        /\ sm.current_state = tw.sm.current_state

\* both have just notified the resumption SPEECH_PAUSE -> SPEECH_CONTINUE
C8_Witness ==
    /\ AfterProcess
    /\ notes = << <<VAD_STATE_SPEECH_PAUSE, VAD_STATE_SPEECH_CONTINUE, sm.user_data>> >>
    /\ tw.cb = notes

\* C9 as claimed: fed exactly speech_start_frames voiced frames and then up to
\* speech_end_frames silent ones, a fresh machine whose speech, the voiced
\* frames, lasted less than min_speech_duration_ms is never in SPEECH_END and
\* is in SILENCE after the last of the silent frames.
C9_ShortBurstRejected ==
    (/\ handle = "SM"
     /\ seen.burst
     /\ seen.lead_voiced = sm.config.speech_start_frames
     /\ seen.then_silent <= sm.config.speech_end_frames
     /\ seen.lead_voiced * sm.frame_duration_ms < sm.config.min_speech_duration_ms)
    => /\ sm.current_state # VAD_STATE_SPEECH_END
       /\ seen.then_silent = sm.config.speech_end_frames
            => sm.current_state = VAD_STATE_SILENCE

\* C10: a fresh machine stays in SILENCE until the call that completes the
\* first run of speech_start_frames voiced frames, which returns SPEECH_START;
\* if the frame after it is voiced, that call returns SPEECH_CONTINUE.
C10_OnsetHysteresis ==
    AfterProcess =>
        /\ seen.onset = "before" => ret = <<VAD_STATE_SILENCE>>
        /\ seen.onset = "at" => ret = <<VAD_STATE_SPEECH_START>>
        /\ (seen.onset = "next" /\ seen.run_kind = "voiced")
              => ret = <<VAD_STATE_SPEECH_CONTINUE>>

\* the fourth voiced frame in a row with speech_start_frames = 3, after silence
C10_Witness ==
    /\ AfterProcess
    /\ sm.config.speech_start_frames = 3
    /\ seen.onset = "next"
    /\ seen.run_len = 4
    /\ seen.calls > 4
    /\ ret = <<VAD_STATE_SPEECH_CONTINUE>>

\* C11: a machine in SPEECH_CONTINUE goes to SPEECH_PAUSE on the
\* pause_frames-th silent frame in a row and not before, and a machine in
\* SPEECH_PAUSE goes back to SPEECH_CONTINUE on the pause_resume_frames-th
\* voiced frame in a row and not before; current_state_frames is 0 after each
\* of the two transitions.
C11_PauseAndResume ==
    AfterProcess =>
        /\ (was = VAD_STATE_SPEECH_CONTINUE /\ seen.run_kind = "silent") =>
              IF seen.run_len = sm.config.pause_frames
              THEN /\ sm.current_state = VAD_STATE_SPEECH_PAUSE
                   /\ sm.current_state_frames = 0
              ELSE /\ seen.run_len < sm.config.pause_frames
                   /\ sm.current_state = VAD_STATE_SPEECH_CONTINUE
        /\ (was = VAD_STATE_SPEECH_CONTINUE /\ seen.run_kind = "voiced") =>
              sm.current_state = VAD_STATE_SPEECH_CONTINUE
        /\ (was = VAD_STATE_SPEECH_PAUSE /\ seen.run_kind = "voiced") =>
              IF seen.run_len = sm.config.pause_resume_frames
              THEN /\ sm.current_state = VAD_STATE_SPEECH_CONTINUE
                   /\ sm.current_state_frames = 0
              ELSE /\ seen.run_len < sm.config.pause_resume_frames
                   /\ sm.current_state # VAD_STATE_SPEECH_CONTINUE
        /\ (was = VAD_STATE_SPEECH_PAUSE /\ seen.run_kind = "silent") =>
              sm.current_state # VAD_STATE_SPEECH_CONTINUE

\* the second voiced frame in a row has just resumed a pause that two silent
\* frames had opened
C11_Witness ==
    /\ AfterProcess
    /\ sm.config.pause_frames = 2
    /\ sm.config.pause_resume_frames = 2
    /\ was = VAD_STATE_SPEECH_PAUSE
    /\ sm.current_state = VAD_STATE_SPEECH_CONTINUE
    /\ seen.run_kind = "voiced"
    /\ seen.run_len = 2
    /\ sm.current_state_frames = 0

\* a silent frame has just been processed by a machine that was in SPEECH_PAUSE
SilentInPause ==
    /\ AfterProcess
    /\ was = VAD_STATE_SPEECH_PAUSE
    /\ seen.run_kind = "silent"

\* the configuration of the max-pause example: 160 ms of 16 ms frames
TenFramePause ==
    /\ sm.config.max_pause_duration_ms = 160
    /\ sm.frame_duration_ms = 16

\* C12 as claimed: with max_pause_duration_ms = 160 and 16 ms frames, of the
\* silent frames fed in a row to a machine in SPEECH_PAUSE the first nine leave
\* it in SPEECH_PAUSE and the tenth takes it to SPEECH_END.
C12_TimeoutOnTenthFrameInPause ==
    (SilentInPause /\ TenFramePause) =>
        /\ seen.pause_silent < 10 => sm.current_state = VAD_STATE_SPEECH_PAUSE
        /\ seen.pause_silent = 10 => sm.current_state = VAD_STATE_SPEECH_END

\* C12 as amended: a silent frame takes a machine in SPEECH_PAUSE to SPEECH_END
\* when the run of silent frames it belongs to, the pause_frames silent frames
\* that opened the pause counted if the run began with them, has reached
\* max_pause_duration_ms, and leaves it in SPEECH_PAUSE otherwise. With 160 ms
\* and 16 ms frames that is the first silent frame processed in SPEECH_PAUSE
\* with a run of ten or more: the tenth silent frame after a voiced frame
\* received in SPEECH_PAUSE, else the (10 - pause_frames)-th silent frame in
\* SPEECH_PAUSE for pause_frames below ten and the first one otherwise.
C12_TimeoutOnSilentRun ==
    SilentInPause =>
        /\ seen.run_len \in {seen.pause_silent,
                              seen.pause_silent + sm.config.pause_frames}
        /\ IF seen.run_len * sm.frame_duration_ms >= sm.config.max_pause_duration_ms
           THEN sm.current_state = VAD_STATE_SPEECH_END
           ELSE sm.current_state = VAD_STATE_SPEECH_PAUSE
        /\ TenFramePause =>
              /\ sm.current_state = VAD_STATE_SPEECH_END <=> seen.run_len >= 10
              /\ sm.current_state = VAD_STATE_SPEECH_END =>
                    seen.pause_silent =
                        IF seen.run_len = seen.pause_silent THEN 10
                        ELSE IF sm.config.pause_frames < 10
                             THEN 10 - sm.config.pause_frames
                             ELSE 1

\* the tenth silent frame after a voiced frame received in SPEECH_PAUSE has
\* just ended the speech
C12_Witness ==
    /\ SilentInPause
    /\ TenFramePause
    /\ seen.pause_silent = 10
    /\ seen.run_len = 10
    /\ sm.current_state = VAD_STATE_SPEECH_END

\* the ninth silent frame fed in SPEECH_PAUSE, the tenth of its run, has just
\* ended the speech
TimeoutWithEntryFrames ==
    /\ SilentInPause
    /\ TenFramePause
    /\ sm.config.pause_frames = 1
    /\ seen.pause_silent = 9
    /\ seen.run_len = 10
    /\ sm.current_state = VAD_STATE_SPEECH_END

\* with pause_frames = 10 the first silent frame fed in SPEECH_PAUSE, the
\* eleventh of its run, has just ended the speech
TimeoutOnFirstFrameInPause ==
    /\ SilentInPause
    /\ TenFramePause
    /\ sm.config.pause_frames = 10
    /\ seen.pause_silent = 1
    /\ seen.run_len = 11
    /\ sm.current_state = VAD_STATE_SPEECH_END

\* a frame has just been processed by a machine that was in SPEECH_END
AfterEnd ==
    /\ AfterProcess
    /\ was = VAD_STATE_SPEECH_END

\* the run of voiced frames has reached speech_start_frames
OnsetRun ==
    /\ seen.run_kind = "voiced"
    /\ seen.run_len >= sm.config.speech_start_frames

\* the call made in SPEECH_END leaves it, for SPEECH_START when the voiced run
\* has reached speech_start_frames and for SILENCE otherwise
EndLastsOneFrame ==
    /\ sm.current_state # VAD_STATE_SPEECH_END
    /\ sm.current_state = VAD_STATE_SPEECH_START <=> OnsetRun
    /\ sm.current_state = VAD_STATE_SILENCE <=> ~OnsetRun

\* C13 as claimed: SPEECH_END lasts one frame, the next call going to
\* SPEECH_START if speech_frame_count >= speech_start_frames and to SILENCE
\* otherwise; with speech_start_frames >= 2 it always goes to SILENCE.
C13_EndDecaysToSilence ==
    AfterEnd =>
        /\ EndLastsOneFrame
        /\ sm.config.speech_start_frames >= 2
              => sm.current_state = VAD_STATE_SILENCE

\* C13 as amended: the same, the last part for speech_start_frames >= 2 and
\* max_pause_duration_ms > 0.
C13_EndDecaysUnlessZeroPause ==
    AfterEnd =>
        /\ EndLastsOneFrame
        /\ (sm.config.speech_start_frames >= 2
               /\ sm.config.max_pause_duration_ms > 0)
              => sm.current_state = VAD_STATE_SILENCE

\* a voiced frame after SPEECH_END has led to SILENCE, two being needed to start
C13_Witness ==
    /\ AfterEnd
    /\ sm.config.speech_start_frames = 2
    /\ sm.config.max_pause_duration_ms > 0
    /\ seen.run_kind = "voiced"
    /\ sm.current_state = VAD_STATE_SILENCE

\* a step in which a call to process takes a machine out of SPEECH_START
LeavesStart ==
    /\ ProcessStep
    /\ sm.current_state = VAD_STATE_SPEECH_START
    /\ sm'.current_state # VAD_STATE_SPEECH_START

\* in such a step, the time spent in SPEECH_START as the call measures it,
\* current_state_frames with this frame counted, is below the minimum
LeavesStartEarly ==
    /\ LeavesStart
    /\ (sm.current_state_frames + 1) * sm.frame_duration_ms
          < sm.config.min_speech_duration_ms

\* C14 as claimed: a machine that leaves SPEECH_START after less than
\* min_speech_duration_ms in it goes to SILENCE, never to SPEECH_CONTINUE or
\* SPEECH_END.
C14_EarlyExitIsSilence ==
    [][LeavesStartEarly => sm'.current_state = VAD_STATE_SILENCE]_vars

\* C14 as amended: a machine that leaves SPEECH_START on a silent frame after
\* less than min_speech_duration_ms in it goes to SILENCE, and to SPEECH_END
\* after at least that long; a voiced frame takes it to SPEECH_CONTINUE
\* whatever the time spent.
C14_EarlySilentExitIsSilence ==
    [][LeavesStart =>
        IF seen'.run_kind = "voiced"
        THEN sm'.current_state = VAD_STATE_SPEECH_CONTINUE
        ELSE IF LeavesStartEarly
        THEN sm'.current_state = VAD_STATE_SILENCE
        ELSE sm'.current_state = VAD_STATE_SPEECH_END]_vars

\* five silent frames, 80 ms of a minimum of 200, have just sent a machine
\* from SPEECH_START back to SILENCE
C14_Witness ==
    /\ AfterProcess
    /\ was = VAD_STATE_SPEECH_START
    /\ sm.current_state = VAD_STATE_SILENCE
    /\ sm.config.min_speech_duration_ms = 200
    /\ seen.run_kind = "silent"
    /\ seen.run_len = 5

\* the values of vad_state_t
States ==
    {VAD_STATE_SILENCE, VAD_STATE_SPEECH_START, VAD_STATE_SPEECH_CONTINUE,
     VAD_STATE_SPEECH_PAUSE, VAD_STATE_SPEECH_END}

\* C15: process called with a null handle signals a usage error: it does not
\* return a state as if a frame had been classified.
C15_NullProcessFailsFast ==
    (handle = "NULL" /\ op = "process") => ret \notin {<<s>> : s \in States}

\* C16: with a null handle every operation is tolerated and changes nothing:
\* process and get_current_state return SILENCE, get_current_state_duration
\* returns 0, reset and destroy return, and no callback is invoked.
C16_NullHandleTolerated ==
    [][handle = "NULL" =>
        /\ handle' = "NULL"
        /\ sm' = sm
        /\ notes' = << >>
        /\ CASE op' = "process" -> ret' = <<VAD_STATE_SILENCE>>
             [] op' = "get_current_state" -> ret' = <<VAD_STATE_SILENCE>>
             [] op' = "get_current_state_duration" -> ret' = <<0>>
             [] op' = "reset" -> ret' = << >>
             [] op' = "destroy" -> ret' = << >>
             [] OTHER -> FALSE]_vars

\* get_current_state_duration has just answered a null handle with 0
C16_Witness ==
    /\ handle = "NULL"
    /\ op = "get_current_state_duration"
    /\ ret = <<0>>
    /\ notes = << >>

\* C17: with all four frame thresholds at least 1, after every process call no
\* count guard of the state the machine is in is left pending: in SILENCE
\* speech_frame_count < speech_start_frames, in SPEECH_START
\* silence_frame_count < speech_end_frames, in SPEECH_CONTINUE
\* silence_frame_count < pause_frames, in SPEECH_PAUSE
\* speech_frame_count < pause_resume_frames.
C17_NoGuardPending ==
    (/\ AfterProcess
     /\ sm.config.speech_start_frames >= 1
     /\ sm.config.speech_end_frames >= 1
     /\ sm.config.pause_frames >= 1
     /\ sm.config.pause_resume_frames >= 1) =>
        /\ sm.current_state = VAD_STATE_SILENCE =>
              sm.speech_frame_count < sm.config.speech_start_frames
        /\ sm.current_state = VAD_STATE_SPEECH_START =>
              sm.silence_frame_count < sm.config.speech_end_frames
        /\ sm.current_state = VAD_STATE_SPEECH_CONTINUE =>
              sm.silence_frame_count < sm.config.pause_frames
        /\ sm.current_state = VAD_STATE_SPEECH_PAUSE =>
              sm.speech_frame_count < sm.config.pause_resume_frames

\* a voiced frame in SPEECH_PAUSE that is one short of resuming, and a silent
\* frame in SPEECH_CONTINUE that is one short of pausing
C17_Witness ==
    /\ AfterProcess
    /\ \/ /\ sm.current_state = VAD_STATE_SPEECH_PAUSE
          /\ sm.speech_frame_count = 1
          /\ sm.config.pause_resume_frames = 2
       \/ /\ sm.current_state = VAD_STATE_SPEECH_CONTINUE
          /\ sm.silence_frame_count = 1
          /\ sm.config.pause_frames = 2

\* the duration line 278 compares with min_speech_duration_ms when the silent
\* run in SPEECH_START reaches speech_end_frames
SilentExitDuration(m) == m.config.speech_end_frames * m.frame_duration_ms

\* C18: in SPEECH_START current_state_frames equals silence_frame_count after
\* every process call, so a silent exit from SPEECH_START is decided by the
\* configuration alone: SPEECH_END if speech_end_frames * frame_duration_ms >=
\* min_speech_duration_ms, SILENCE otherwise.
C18_SilentExitByConfig ==
    /\ (AfterProcess /\ sm.current_state = VAD_STATE_SPEECH_START) =>
          sm.current_state_frames = sm.silence_frame_count
    /\ (/\ AfterProcess
        /\ was = VAD_STATE_SPEECH_START
        /\ sm.current_state # VAD_STATE_SPEECH_START
        /\ seen.run_kind = "silent") =>
          sm.current_state =
              IF SilentExitDuration(sm) >= sm.config.min_speech_duration_ms
              THEN VAD_STATE_SPEECH_END
              ELSE VAD_STATE_SILENCE

\* a silent exit from SPEECH_START to SPEECH_END
C18_Witness ==
    /\ AfterProcess
    /\ was = VAD_STATE_SPEECH_START
    /\ seen.run_kind = "silent"
    /\ sm.current_state = VAD_STATE_SPEECH_END
    /\ SilentExitDuration(sm) >= sm.config.min_speech_duration_ms

\* a / b rounded up
CeilDiv(a, b) == (a + b - 1) \div b

\* the larger of two numbers
Max2(a, b) == IF a >= b THEN a ELSE b

\* the number of silent frames within which a machine is back in SILENCE
QuiescenceBound(m) ==
    Max2(m.config.speech_end_frames,
         m.config.pause_frames
            + CeilDiv(m.config.max_pause_duration_ms, m.frame_duration_ms)) + 2

\* C19: under sustained silence the machine is in SILENCE once the silent run
\* is max(speech_end_frames, pause_frames + ceil(max_pause_duration_ms /
\* frame_duration_ms)) + 2 frames long, whatever state the run began in, and a
\* silent frame in SILENCE leaves it in SILENCE and notifies nothing.
C19_Quiescence ==
    /\ (/\ AfterProcess
        /\ seen.run_kind = "silent"
        /\ seen.run_len >= QuiescenceBound(sm)) =>
          sm.current_state = VAD_STATE_SILENCE
    /\ (/\ AfterProcess
        /\ seen.run_kind = "silent"
        /\ was = VAD_STATE_SILENCE) =>
          /\ sm.current_state = VAD_STATE_SILENCE
          /\ notes = << >>

\* a silent run of the bound's length that followed speech and took the
\* machine through SPEECH_END to SILENCE
C19_Witness ==
    /\ AfterProcess
    /\ seen.run_kind = "silent"
    /\ seen.run_len >= QuiescenceBound(sm)
    /\ seen.calls > seen.run_len
    /\ sm.current_state = VAD_STATE_SILENCE
    /\ sm.previous_state = VAD_STATE_SPEECH_END
    /\ sm.last_speech_frame >= 0
    /\ notes = << >>

\* a process call found the machine in SPEECH_PAUSE and left it there
StaysInPause ==
    /\ AfterProcess
    /\ was = VAD_STATE_SPEECH_PAUSE
    /\ sm.current_state = VAD_STATE_SPEECH_PAUSE

\* frames over which a stay in SPEECH_PAUSE is followed
StayFrames == 4

\* some sequence of n frames keeps machine m in SPEECH_PAUSE throughout
RECURSIVE CanStay(_, _)
CanStay(m, n) ==
    IF n = 0 THEN TRUE
    ELSE \E f \in VadFlags :
            LET r == vad_state_machine_process(m, f, 0).sm
            IN /\ r.current_state = VAD_STATE_SPEECH_PAUSE
               /\ CanStay(r, n - 1)

\* a machine in SPEECH_PAUSE whose pause_resume_frames is at least 2
InPauseSlowResume ==
    /\ handle = "SM"
    /\ sm.current_state = VAD_STATE_SPEECH_PAUSE
    /\ sm.config.pause_resume_frames >= 2

\* C20 as claimed: whenever a process call leaves a machine in SPEECH_PAUSE,
\* silence_frame_count * frame_duration_ms < max_pause_duration_ms; and with
\* pause_resume_frames >= 2 a machine that has entered SPEECH_PAUSE can be kept
\* there by some frames for longer than max_pause_duration_ms, without bound.
C20_StaysWithoutBound ==
    /\ StaysInPause =>
          sm.silence_frame_count * sm.frame_duration_ms
              < sm.config.max_pause_duration_ms
    /\ InPauseSlowResume => CanStay(sm, StayFrames)

\* C20 as amended: the pause timeout is measured on the run of silent frames,
\* not on the time in SPEECH_PAUSE: whenever a process call leaves a machine in
\* SPEECH_PAUSE, silence_frame_count * frame_duration_ms <
\* max_pause_duration_ms; with pause_resume_frames >= 2 and
\* max_pause_duration_ms above one frame, a machine in SPEECH_PAUSE can always
\* be kept there by some next frames, so current_state_frames *
\* frame_duration_ms grows past max_pause_duration_ms without bound; with
\* max_pause_duration_ms of one frame or less it stays in SPEECH_PAUSE for
\* fewer than pause_resume_frames frames.
C20_TimeoutOnSilentRunOnly ==
    /\ StaysInPause =>
          sm.silence_frame_count * sm.frame_duration_ms
              < sm.config.max_pause_duration_ms
    /\ (/\ InPauseSlowResume
        /\ sm.config.max_pause_duration_ms > sm.frame_duration_ms) =>
          CanStay(sm, StayFrames)
    /\ (/\ handle = "SM"
        /\ sm.current_state = VAD_STATE_SPEECH_PAUSE
        /\ sm.config.max_pause_duration_ms <= sm.frame_duration_ms) =>
          /\ sm.current_state_frames < sm.config.pause_resume_frames
          /\ sm.current_state_frames = sm.speech_frame_count

\* a machine kept in SPEECH_PAUSE for longer than max_pause_duration_ms by
\* isolated voiced frames
C20_Witness ==
    /\ StaysInPause
    /\ sm.config.pause_resume_frames >= 2
    /\ sm.config.max_pause_duration_ms > sm.frame_duration_ms
    /\ sm.current_state_frames * sm.frame_duration_ms
          > sm.config.max_pause_duration_ms

====
